---------------------------- MODULE Spec2Model ----------------------------
(***************************************************************************)
(* SafeMind content-risk aggregation engine.                               *)
(*                                                                         *)
(* A model of CombinedContentAnalyzer (analyzeMessage, analyzeConversation *)
(* and their helpers), of the two classifier adapters it calls             *)
(* (PerspectiveAnalyzer.analyzeText, OpenAIModerator.moderateText) and of  *)
(* the promises that connect them.                                         *)
(*                                                                         *)
(* Numbers.  A JavaScript number is modelled as an exact extended rational *)
(* [n, d]: d > 0 is the finite value n/d in lowest terms, d = 0 is         *)
(* -Infinity (n = -1), +Infinity (n = 1) or NaN (n = 0).  The arithmetic   *)
(* is exact: the rounding of IEEE doubles is not modelled.                 *)
(*                                                                         *)
(* Text.  A message is a string; toLowerCase and String.includes are       *)
(* computed character by character.                                        *)
(***************************************************************************)
EXTENDS Integers, Sequences, FiniteSets, TLC

(***************************************************************************)
(* Bounds of the model.                                                    *)
(***************************************************************************)
\* longest conversation handed to analyzeConversation
MaxMessages == 2
\* the clock is observed for MaxTicks steps of 5000 milliseconds
MaxTicks == 3
\* ConversationSpec analyses conversations of at most MaxWindow messages
MaxWindow == 7
\* LimiterSpec follows MaxRequests requests over MaxClock steps of 500 ms
MaxRequests == 4
MaxClock == 6

(***************************************************************************)
(* JavaScript numbers                                                      *)
(***************************************************************************)
Abs(i) == IF i < 0 THEN -i ELSE i

RECURSIVE GCD(_, _)
GCD(a, b) == IF b = 0 THEN a ELSE GCD(b, a % b)

\* the finite number n/d (d > 0), in lowest terms
Frac(n, d) == LET g == GCD(Abs(n), d) IN [n |-> n \div g, d |-> d \div g]

Num(i) == [n |-> i, d |-> 1]

NegInfinity == [n |-> -1, d |-> 0]
PosInfinity == [n |-> 1, d |-> 0]
NaN         == [n |-> 0, d |-> 0]

IsFinite(x) == x.d # 0
IsNaN(x)    == x.d = 0 /\ x.n = 0
Sign(x)     == IF x.n > 0 THEN 1 ELSE IF x.n < 0 THEN -1 ELSE 0

\* a + b
Add(a, b) ==
    IF IsFinite(a) /\ IsFinite(b) THEN Frac(a.n * b.d + b.n * a.d, a.d * b.d)
    ELSE IF IsNaN(a) \/ IsNaN(b) THEN NaN
    ELSE IF IsFinite(a) THEN b
    ELSE IF IsFinite(b) THEN a
    ELSE IF a.n = b.n THEN a ELSE NaN

\* a * b
Mul(a, b) ==
    IF IsFinite(a) /\ IsFinite(b) THEN Frac(a.n * b.n, a.d * b.d)
    ELSE IF IsNaN(a) \/ IsNaN(b) THEN NaN
    ELSE IF Sign(a) * Sign(b) = 0 THEN NaN
    ELSE IF Sign(a) * Sign(b) > 0 THEN PosInfinity ELSE NegInfinity

Neg(a) == [n |-> -a.n, d |-> a.d]
Sub(a, b) == Add(a, Neg(b))

\* a / k for an integer k >= 0 (the length of an array)
DivInt(a, k) ==
    IF ~IsFinite(a) THEN a
    ELSE IF k # 0 THEN Frac(a.n, a.d * k)
    ELSE IF a.n = 0 THEN NaN
    ELSE IF a.n > 0 THEN PosInfinity ELSE NegInfinity

\* a < b, a > b, a >= b, a = b as JavaScript compares numbers (false on NaN)
Lt(a, b) ==
    IF IsNaN(a) \/ IsNaN(b) THEN FALSE
    ELSE IF IsFinite(a) /\ IsFinite(b) THEN a.n * b.d < b.n * a.d
    ELSE IF IsFinite(a) THEN b.n > 0
    ELSE IF IsFinite(b) THEN a.n < 0
    ELSE a.n < b.n
Gt(a, b)  == Lt(b, a)
NumEq(a, b) == ~IsNaN(a) /\ ~IsNaN(b) /\ ~Lt(a, b) /\ ~Lt(b, a)
Geq(a, b) == Gt(a, b) \/ NumEq(a, b)
Leq(a, b) == Geq(b, a)

\* Math.max(a, b), Math.min(a, b)
MathMax2(a, b) == IF IsNaN(a) \/ IsNaN(b) THEN NaN ELSE IF Lt(a, b) THEN b ELSE a
MathMin2(a, b) == IF IsNaN(a) \/ IsNaN(b) THEN NaN ELSE IF Lt(b, a) THEN b ELSE a

\* Math.max(...xs): -Infinity for no argument
RECURSIVE MathMax(_)
MathMax(xs) ==
    IF Len(xs) = 0 THEN NegInfinity ELSE MathMax2(Head(xs), MathMax(Tail(xs)))

\* xs.reduce((a, b) => a + b, 0)
RECURSIVE Sum(_)
Sum(xs) == IF Len(xs) = 0 THEN Num(0) ELSE Add(Sum(SubSeq(xs, 1, Len(xs) - 1)), xs[Len(xs)])

(***************************************************************************)
(* JavaScript strings and arrays                                           *)
(***************************************************************************)
UpperCaseLetters == "ABCDEFGHIJKLMNOPQRSTUVWXYZ"
LowerCaseLetters == "abcdefghijklmnopqrstuvwxyz"

LowerChar(c) ==
    IF \E k \in 1..Len(UpperCaseLetters) : SubSeq(UpperCaseLetters, k, k) = c
    THEN LET k == CHOOSE j \in 1..Len(UpperCaseLetters) :
                      SubSeq(UpperCaseLetters, j, j) = c
         IN  SubSeq(LowerCaseLetters, k, k)
    ELSE c

\* text.toLowerCase()
RECURSIVE ToLowerCase(_)
ToLowerCase(s) ==
    IF Len(s) = 0 THEN s
    ELSE IF Len(s) = 1 THEN LowerChar(s)
    ELSE LET half == Len(s) \div 2
         IN  ToLowerCase(SubSeq(s, 1, half)) \o ToLowerCase(SubSeq(s, half + 1, Len(s)))

\* s.includes(sub)
Includes(s, sub) ==
    \E i \in 1..(Len(s) - Len(sub) + 1) : SubSeq(s, i, i + Len(sub) - 1) = sub

\* xs.includes(x) for an array xs
ArrayIncludes(xs, x) == \E i \in 1..Len(xs) : xs[i] = x

\* xs.filter(Keep) is SelectSeq(xs, Keep) of the Sequences module

\* xs.slice(start, end) with the negative indices of JavaScript
SliceIndex(len, k) == IF k < 0 THEN (IF len + k < 0 THEN 0 ELSE len + k)
                      ELSE (IF k > len THEN len ELSE k)
Slice(xs, start, end) ==
    SubSeq(xs, SliceIndex(Len(xs), start) + 1, SliceIndex(Len(xs), end))
\* xs.slice(start)
SliceFrom(xs, start) == SubSeq(xs, SliceIndex(Len(xs), start) + 1, Len(xs))

\* xs.map(F) for the entries of a score object: the values of its entries
Values(entries) == [i \in 1..Len(entries) |-> entries[i].value]

(***************************************************************************)
(* A promise is pending, fulfilled with a value, or rejected.              *)
(***************************************************************************)
Pending          == [status |-> "pending"]
Rejected         == [status |-> "rejected"]
Fulfilled(value) == [status |-> "fulfilled", value |-> value]
IsSettled(p)     == p.status # "pending"

(***************************************************************************)
(* PerspectiveAnalyzer (classifier A)                                      *)
(*                                                                         *)
(* A reply of fetch is a network error, or a response with its ok flag and *)
(* its JSON body.  The body of classifier A is the array of the entries of *)
(* data.attributeScores, [attribute, value] with value the                 *)
(* summaryScore.value, in the order of Object.entries; wellFormed = FALSE  *)
(* is a body without attributeScores.                                      *)
(***************************************************************************)
NetworkError == [kind |-> "error"]
HttpError    == [kind |-> "response", ok |-> FALSE]
HttpOk(body) == [kind |-> "response", ok |-> TRUE, body |-> body]

Entry(name, value) == [name |-> name, value |-> value]

\* the highestScore of the loop over Object.entries(data.attributeScores)
RECURSIVE highestScore(_)
highestScore(entries) ==
    IF Len(entries) = 0 THEN Num(0)
    ELSE LET before == highestScore(SubSeq(entries, 1, Len(entries) - 1))
             score  == entries[Len(entries)].value
         IN  IF Gt(score, before) THEN score ELSE before

\* the flaggedCategories of the same loop, flagging from 0.7 on
flaggedCategories_AtLeast(entries) ==
    LET flagged == SelectSeq(entries, LAMBDA e : Geq(e.value, Frac(7, 10)))
    IN  [i \in 1..Len(flagged) |-> flagged[i].name]

\* the flaggedCategories of the same loop
flaggedCategories(entries) ==
    LET flagged == SelectSeq(entries, LAMBDA e : Gt(e.value, Frac(7, 10)))
    IN  [i \in 1..Len(flagged) |-> flagged[i].name]

\* PerspectiveAnalyzer.analyzeText: the promise it returns for a reply of fetch
analyzeText(reply) ==
    IF reply.kind = "error" THEN Rejected
    ELSE IF ~reply.ok THEN Rejected
    ELSE IF ~reply.body.wellFormed THEN Rejected
    ELSE Fulfilled([scores            |-> reply.body.attributeScores,
                    highestScore      |-> highestScore(reply.body.attributeScores),
                    flaggedCategories |-> flaggedCategories(reply.body.attributeScores)])

(***************************************************************************)
(* OpenAIModerator (classifier B)                                          *)
(*                                                                         *)
(* The body of classifier B is results[0]: flagged, the entries of         *)
(* categories ([category, boolean]) and category_scores.  hasResult =      *)
(* FALSE is a body whose results array is empty; hasScores = FALSE is a    *)
(* result without category_scores (undefined).                             *)
(***************************************************************************)
\* criticalCategories without the two self-harm categories
criticalCategories_NoSelfHarm ==
    <<"violence/graphic", "harassment/threatening", "sexual/minors">>

criticalCategories ==
    <<"self-harm/intent", "self-harm/instructions", "violence/graphic",
      "harassment/threatening", "sexual/minors">>

\* OpenAIModerator.calculateRiskLevel; Object.values(undefined) throws
calculateRiskLevelThrows(result, criticalFlags) ==
    Len(criticalFlags) = 0 /\ ~result.hasScores

calculateRiskLevel(scores, criticalFlags) ==
    IF Len(criticalFlags) > 0 THEN "critical"
    ELSE LET maxScore == MathMax(Values(scores))
         IN  IF Gt(maxScore, Frac(8, 10)) THEN "high"
             ELSE IF Gt(maxScore, Frac(5, 10)) THEN "medium"
             ELSE "low"

\* the categories and the criticalFlags of moderateText
flaggedNames(result) ==
    LET flagged == SelectSeq(result.categories, LAMBDA e : e.value)
    IN  [i \in 1..Len(flagged) |-> flagged[i].name]

criticalFlagsOf(categories) ==
    SelectSeq(categories, LAMBDA cat : ArrayIncludes(criticalCategories, cat))

\* OpenAIModerator.moderateText: the promise it returns for a reply of fetch
moderateText(reply) ==
    IF reply.kind = "error" THEN Rejected
    ELSE IF ~reply.ok THEN Rejected
    ELSE IF ~reply.body.hasResult THEN Rejected
    ELSE LET result        == reply.body
             categories    == flaggedNames(result)
             criticalFlags == criticalFlagsOf(categories)
         IN  IF calculateRiskLevelThrows(result, criticalFlags) THEN Rejected
             ELSE Fulfilled([flagged       |-> result.flagged,
                             categories    |-> categories,
                             hasScores     |-> result.hasScores,
                             scores        |-> result.category_scores,
                             criticalFlags |-> criticalFlags,
                             riskLevel     |-> calculateRiskLevel(
                                                  result.category_scores,
                                                  criticalFlags)])

(***************************************************************************)
(* CombinedContentAnalyzer                                                 *)
(***************************************************************************)
mentalHealthKeywords ==
    <<"depressed", "depression", "anxious", "anxiety", "hopeless",
      "worthless", "lonely", "isolated", "empty", "numb",
      "tired of living", "can't go on", "give up", "no point",
      "burden", "better off without me", "end it all", "done with life">>

suicidalIdeationKeywords ==
    <<"kill myself", "suicide", "end my life", "want to die",
      "wish i was dead", "wouldn't miss me", "goodbye forever",
      "final message", "take my own life", "self harm", "cut myself",
      "overdose", "jump off", "hang myself">>

\* detectKeywords: the general matches, then the critical ones with their marker
detectKeywords(text) ==
    LET normalizedText == ToLowerCase(text)
        general  == SelectSeq(mentalHealthKeywords,
                              LAMBDA keyword : Includes(normalizedText, keyword))
        critical == SelectSeq(suicidalIdeationKeywords,
                              LAMBDA keyword : Includes(normalizedText, keyword))
    IN  general \o [i \in 1..Len(critical) |-> "[CRITICAL] " \o critical[i]]

positiveWords == <<"happy", "good", "great", "better", "hope", "love", "joy">>
negativeWords == <<"sad", "bad", "worse", "hate", "hurt", "pain", "terrible">>

\* words.forEach((word) => { if (normalized.includes(word)) score += step })
RECURSIVE ForEachWord(_, _, _, _)
ForEachWord(words, normalized, score, step) ==
    IF Len(words) = 0 THEN score
    ELSE ForEachWord(Tail(words), normalized,
                     IF Includes(normalized, Head(words)) THEN Add(score, step)
                     ELSE score,
                     step)

\* analyzeSentiment with the lower bound of its clamp at 0
analyzeSentiment_ClampAtZero(text) ==
    LET normalized == ToLowerCase(text)
        afterPos   == ForEachWord(positiveWords, normalized, Num(0), Frac(1, 10))
        score      == ForEachWord(negativeWords, normalized, afterPos, Frac(-1, 10))
    IN  MathMax2(Num(0), MathMin2(Num(1), score))

analyzeSentiment(text) ==
    LET normalized == ToLowerCase(text)
        afterPos   == ForEachWord(positiveWords, normalized, Num(0), Frac(1, 10))
        score      == ForEachWord(negativeWords, normalized, afterPos, Frac(-1, 10))
    IN  MathMax2(Num(-1), MathMin2(Num(1), score))

SampleTexts ==
    <<"I'm having a great day and feeling positive!",
      "ok",
      "i feel sad and hurt, everything is bad",
      "depressed, anxious, hopeless, worthless, lonely, isolated, empty and numb, just a burden",
      "I want to KILL MYSELF",
      "feeling worthless, i want to die">>

\* texts with 0, 5, 6 and 18 concern terms and no critical term, and the same
\* texts with a critical term added
LexiconBases ==
    <<"nothing to report",
      "depressed, anxious, hopeless, worthless, lonely",
      "depressed, anxious, hopeless, worthless, lonely, isolated",
      "depressed, depression, anxious, anxiety, hopeless, worthless, lonely, "
        \o "isolated, empty, numb, tired of living, can't go on, give up, "
        \o "no point, burden, better off without me, end it all, done with life">>
WithCriticalTerm(text) == text \o ", suicide"

KnownTexts ==
    SampleTexts \o LexiconBases
      \o [k \in 1..Len(LexiconBases) |-> WithCriticalTerm(LexiconBases[k])]

\* detectKeywords and analyzeSentiment over the texts analysed, evaluated once
keywordsOfText  == [i \in 1..Len(KnownTexts) |-> detectKeywords(KnownTexts[i])]
sentimentOfText == [i \in 1..Len(KnownTexts) |-> analyzeSentiment(KnownTexts[i])]
TextIndex(text) == CHOOSE i \in 1..Len(KnownTexts) : KnownTexts[i] = text

\* the value the .catch handler of the classifier A call substitutes
perspectiveDefault ==
    [scores |-> <<>>, highestScore |-> Num(0), flaggedCategories |-> <<>>]

\* this.perspective.analyzeText(text).catch(() => ...): the promise joined
perspectiveCatch(p) ==
    IF p.status = "rejected" THEN Fulfilled(perspectiveDefault) ELSE p

\* the value the .catch handler of the classifier B call substitutes
openaiDefault ==
    [flagged |-> FALSE, categories |-> <<>>, hasScores |-> TRUE, scores |-> <<>>,
     criticalFlags |-> <<>>, riskLevel |-> "low"]

\* this.openai.moderateText(text).catch(() => ...): the promise joined
openaiCatch(p) ==
    IF p.status = "rejected" THEN Fulfilled(openaiDefault) ELSE p

perspectiveWeight == Frac(3, 10)
openaiWeight      == Frac(4, 10)
keywordWeight     == Frac(2, 10)
sentimentWeight   == Frac(1, 10)

perspectiveScore(data) == Mul(data.perspective.highestScore, Num(100))

\* Math.max(...Object.values(data.openai.scores).map(...)) * 100
openaiScore(data) == Mul(MathMax(Values(data.openai.scores)), Num(100))

hasCriticalKeyword(keywords) ==
    \E i \in 1..Len(keywords) : Includes(keywords[i], "[CRITICAL]")

keywordScore(keywords) ==
    IF hasCriticalKeyword(keywords) THEN Num(100) ELSE Num(Len(keywords) * 20)

sentimentScore(data) == Mul(Sub(Num(1), data.sentiment), Num(50))

composite(data) ==
    Add(Add(Add(Mul(perspectiveScore(data), perspectiveWeight),
                Mul(openaiScore(data), openaiWeight)),
            Mul(keywordScore(data.keywords), keywordWeight)),
        Mul(sentimentScore(data), sentimentWeight))

\* Object.values(data.openai.scores) throws a TypeError on undefined scores
calculateRiskScoreThrows(data) == ~data.openai.hasScores

\* calculateRiskScore without its final Math.min / Math.max
calculateRiskScore_NoClamp(data) == composite(data)

calculateRiskScore(data) == MathMin2(Num(100), MathMax2(Num(0), composite(data)))

\* determineRiskLevel without the criticalFlags test
determineRiskLevel_NoOverride(score, criticalFlags) ==
    IF Geq(score, Num(80)) THEN "critical"
    ELSE IF Geq(score, Num(60)) THEN "high"
    ELSE IF Geq(score, Num(40)) THEN "medium"
    ELSE "low"

\* determineRiskLevel with exclusive lower bounds
determineRiskLevel_Exclusive(score, criticalFlags) ==
    IF Len(criticalFlags) > 0 \/ Gt(score, Num(80)) THEN "critical"
    ELSE IF Gt(score, Num(60)) THEN "high"
    ELSE IF Gt(score, Num(40)) THEN "medium"
    ELSE "low"

determineRiskLevel(score, criticalFlags) ==
    IF Len(criticalFlags) > 0 \/ Geq(score, Num(80)) THEN "critical"
    ELSE IF Geq(score, Num(60)) THEN "high"
    ELSE IF Geq(score, Num(40)) THEN "medium"
    ELSE "low"

\* the flags of analyzeMessage, with sexual testing one category only
flagsOf_SexualOnly(perspectiveResult, openaiResult, keywordMatches) ==
    [toxicity |-> Gt(perspectiveResult.highestScore, Frac(7, 10)),
     selfHarm |-> \/ ArrayIncludes(openaiResult.categories, "self-harm/intent")
                  \/ ArrayIncludes(openaiResult.categories, "self-harm/instructions"),
     violence |-> \/ ArrayIncludes(openaiResult.categories, "violence")
                  \/ ArrayIncludes(openaiResult.categories, "violence/graphic"),
     hate     |-> \/ ArrayIncludes(openaiResult.categories, "hate")
                  \/ ArrayIncludes(openaiResult.categories, "hate/threatening"),
     sexual   |-> ArrayIncludes(openaiResult.categories, "sexual"),
     mentalHealthConcern |-> Len(keywordMatches) > 0]

\* the flags of analyzeMessage
flagsOf(perspectiveResult, openaiResult, keywordMatches) ==
    [toxicity |-> Gt(perspectiveResult.highestScore, Frac(7, 10)),
     selfHarm |-> \/ ArrayIncludes(openaiResult.categories, "self-harm/intent")
                  \/ ArrayIncludes(openaiResult.categories, "self-harm/instructions"),
     violence |-> \/ ArrayIncludes(openaiResult.categories, "violence")
                  \/ ArrayIncludes(openaiResult.categories, "violence/graphic"),
     hate     |-> \/ ArrayIncludes(openaiResult.categories, "hate")
                  \/ ArrayIncludes(openaiResult.categories, "hate/threatening"),
     sexual   |-> \/ ArrayIncludes(openaiResult.categories, "sexual")
                  \/ ArrayIncludes(openaiResult.categories, "sexual/minors"),
     mentalHealthConcern |-> Len(keywordMatches) > 0]

\* requiresAlert without the test of 'high'
requiresAlert_CriticalOnly(riskLevel, flags) ==
    riskLevel = "critical" \/ flags.selfHarm

requiresAlert(riskLevel, flags) ==
    riskLevel = "critical" \/ riskLevel = "high" \/ flags.selfHarm

\* generateSuggestedActions with the last two blocks chained by else-if
generateSuggestedActions_ElseIf(flags, riskLevel) ==
    (IF flags.selfHarm
     THEN <<"IMMEDIATE: Contact crisis intervention services",
            "Notify parent/guardian immediately",
            "Provide crisis hotline resources">>
     ELSE <<>>)
    \o (IF flags.violence
        THEN <<"Assess immediate danger to self or others",
               "Notify appropriate authorities if threat detected">>
        ELSE <<>>)
    \o (IF flags.mentalHealthConcern
        THEN <<"Consider reaching out to mental health resources",
               "Monitor conversation closely">>
        ELSE IF riskLevel = "critical" \/ riskLevel = "high"
        THEN <<"Send alert to trusted contacts",
               "Increase monitoring frequency">>
        ELSE <<>>)

generateSuggestedActions(flags, riskLevel) ==
    (IF flags.selfHarm
     THEN <<"IMMEDIATE: Contact crisis intervention services",
            "Notify parent/guardian immediately",
            "Provide crisis hotline resources">>
     ELSE <<>>)
    \o (IF flags.violence
        THEN <<"Assess immediate danger to self or others",
               "Notify appropriate authorities if threat detected">>
        ELSE <<>>)
    \o (IF flags.mentalHealthConcern
        THEN <<"Consider reaching out to mental health resources",
               "Monitor conversation closely">>
        ELSE <<>>)
    \o (IF riskLevel = "critical" \/ riskLevel = "high"
        THEN <<"Send alert to trusted contacts",
               "Increase monitoring frequency">>
        ELSE <<>>)

\* analyzeMessage after its Promise.all: the promise it returns, given the two
\* classifier promises as they settled (the timestamp is not modelled)
analyzeMessage(text, perspectivePromise, openaiPromise) ==
    LET perspectiveJoined == perspectiveCatch(perspectivePromise)
        openaiJoined      == openaiCatch(openaiPromise)
    IN  IF perspectiveJoined.status = "rejected" \/ openaiJoined.status = "rejected"
        THEN Rejected
        ELSE
        LET perspectiveResult == perspectiveJoined.value
            openaiResult      == openaiJoined.value
            keywordMatches    == keywordsOfText[TextIndex(text)]
            sentiment         == sentimentOfText[TextIndex(text)]
            data == [perspective |-> perspectiveResult, openai |-> openaiResult,
                     keywords |-> keywordMatches, sentiment |-> sentiment]
        IN  IF calculateRiskScoreThrows(data) THEN Rejected
            ELSE
            LET riskScore == calculateRiskScore(data)
                riskLevel == determineRiskLevel(riskScore, openaiResult.criticalFlags)
                flags     == flagsOf(perspectiveResult, openaiResult, keywordMatches)
            IN  Fulfilled(
                  [text             |-> text,
                   riskScore        |-> riskScore,
                   riskLevel        |-> riskLevel,
                   categories       |-> perspectiveResult.flaggedCategories
                                          \o openaiResult.categories,
                   flags            |-> flags,
                   details          |-> data,
                   requiresAlert    |-> requiresAlert(riskLevel, flags),
                   suggestedActions |-> generateSuggestedActions(flags, riskLevel)])

\* detectEscalation returning false unless the older window is full
detectEscalation_FullWindow(scores) ==
    IF Len(scores) < 3 THEN FALSE
    ELSE LET recentScores == SliceFrom(scores, -3)
             olderScores  == Slice(scores, -6, -3)
         IN  IF Len(olderScores) < 3 THEN FALSE
             ELSE LET recentAvg == DivInt(Sum(recentScores), Len(recentScores))
                      olderAvg  == DivInt(Sum(olderScores), Len(olderScores))
                  IN  Gt(recentAvg, Mul(olderAvg, Frac(13, 10)))

detectEscalation(scores) ==
    IF Len(scores) < 3 THEN FALSE
    ELSE LET recentScores == SliceFrom(scores, -3)
             olderScores  == Slice(scores, -6, -3)
         IN  IF Len(olderScores) = 0 THEN FALSE
             ELSE LET recentAvg == DivInt(Sum(recentScores), Len(recentScores))
                      olderAvg  == DivInt(Sum(olderScores), Len(olderScores))
                  IN  Gt(recentAvg, Mul(olderAvg, Frac(13, 10)))

\* analyzeSentimentTrend without its guard on short conversations
analyzeSentimentTrend_NoGuard(sentiments) ==
    LET recentAvg == DivInt(Sum(SliceFrom(sentiments, -3)), 3)
        olderAvg  == DivInt(Sum(Slice(sentiments, -6, -3)), 3)
    IN  IF Gt(recentAvg, Mul(olderAvg, Frac(12, 10))) THEN "improving"
        ELSE IF Lt(recentAvg, Mul(olderAvg, Frac(8, 10))) THEN "declining"
        ELSE "stable"

analyzeSentimentTrend(sentiments) ==
    IF Len(sentiments) < 3 THEN "stable"
    ELSE LET recentAvg == DivInt(Sum(SliceFrom(sentiments, -3)), 3)
             olderAvg  == DivInt(Sum(Slice(sentiments, -6, -3)), 3)
         IN  IF Gt(recentAvg, Mul(olderAvg, Frac(12, 10))) THEN "improving"
             ELSE IF Lt(recentAvg, Mul(olderAvg, Frac(8, 10))) THEN "declining"
             ELSE "stable"

\* generateRecommendations advising intervention at critical only
generateRecommendations_CriticalOnly(data) ==
    (IF Len(data.criticalMessages) > 0
     THEN <<ToString(Len(data.criticalMessages))
              \o " critical message(s) detected - immediate review required">>
     ELSE <<>>)
    \o (IF data.isEscalating
        THEN <<"Conversation risk is escalating - increase monitoring">>
        ELSE <<>>)
    \o (IF data.sentimentTrend = "declining"
        THEN <<"Sentiment is declining - user may need support">>
        ELSE <<>>)
    \o (IF data.overallRiskLevel = "critical"
        THEN <<"High overall risk - consider intervention">>
        ELSE <<>>)

generateRecommendations(data) ==
    (IF Len(data.criticalMessages) > 0
     THEN <<ToString(Len(data.criticalMessages))
              \o " critical message(s) detected - immediate review required">>
     ELSE <<>>)
    \o (IF data.isEscalating
        THEN <<"Conversation risk is escalating - increase monitoring">>
        ELSE <<>>)
    \o (IF data.sentimentTrend = "declining"
        THEN <<"Sentiment is declining - user may need support">>
        ELSE <<>>)
    \o (IF data.overallRiskLevel = "critical" \/ data.overallRiskLevel = "high"
        THEN <<"High overall risk - consider intervention">>
        ELSE <<>>)

\* the overallRiskLevel of analyzeConversation, with the critical categories
\* of the messages overriding the thresholds as they do for one message
overallRiskLevelOf_Override(overallRiskScore, results) ==
    IF \E i \in 1..Len(results) : Len(results[i].details.openai.criticalFlags) > 0
    THEN "critical"
    ELSE determineRiskLevel(overallRiskScore, <<>>)

\* the overallRiskLevel of analyzeConversation
overallRiskLevelOf(overallRiskScore, results) ==
    determineRiskLevel(overallRiskScore, <<>>)

\* the criticalMessages of analyzeConversation, keeping the critical only
criticalMessagesOf_CriticalOnly(results) ==
    SelectSeq(results, LAMBDA a : a.riskLevel = "critical")

\* the criticalMessages of analyzeConversation
criticalMessagesOf(results) ==
    SelectSeq(results, LAMBDA a : a.riskLevel = "critical" \/ a.riskLevel = "high")

\* analyzeConversation after its Promise.all over the per-message promises
\* (all fulfilled, or one rejected): the promise it returns
analyzeConversation(msgs, promises) ==
    IF \E i \in 1..Len(promises) : promises[i].status = "rejected" THEN Rejected
    ELSE
    LET results          == [i \in 1..Len(promises) |-> promises[i].value]
        riskScores       == [i \in 1..Len(results) |-> results[i].riskScore]
        overallRiskScore == DivInt(Sum(riskScores), Len(results))
        overallRiskLevel == overallRiskLevelOf(overallRiskScore, results)
        isEscalating     == detectEscalation(riskScores)
        sentimentTrend   == analyzeSentimentTrend(
                              [i \in 1..Len(results) |-> results[i].details.sentiment])
        criticalMessages == criticalMessagesOf(results)
        data == [overallRiskLevel |-> overallRiskLevel,
                 isEscalating     |-> isEscalating,
                 sentimentTrend   |-> sentimentTrend,
                 criticalMessages |-> criticalMessages]
    IN  Fulfilled([messageCount     |-> Len(msgs),
                   overallRiskScore |-> overallRiskScore,
                   overallRiskLevel |-> overallRiskLevel,
                   isEscalating     |-> isEscalating,
                   sentimentTrend   |-> sentimentTrend,
                   criticalMessages |-> criticalMessages,
                   recommendations  |-> generateRecommendations(data)])

(***************************************************************************)
(* The inputs: conversations and the replies of the two classifiers        *)
(***************************************************************************)
\* the conversations analysed: the runs of at most MaxMessages sample texts
Conversations ==
    {SubSeq(SampleTexts, w[1], w[2]) :
        w \in {v \in (1..Len(SampleTexts)) \X (1..Len(SampleTexts)) :
                  v[2] >= v[1] /\ v[2] - v[1] < MaxMessages}}

PerspectiveBodies ==
    {[wellFormed |-> TRUE,
      attributeScores |-> <<Entry("TOXICITY", Frac(50, 100)),
                            Entry("INSULT", Frac(20, 100))>>],
     [wellFormed |-> TRUE,
      attributeScores |-> <<Entry("TOXICITY", Frac(71, 100)),
                            Entry("INSULT", Frac(90, 100)),
                            Entry("THREAT", Frac(70, 100))>>],
     [wellFormed |-> FALSE, attributeScores |-> <<>>]}

PerspectiveReplies ==
    {NetworkError, HttpError} \cup {HttpOk(b) : b \in PerspectiveBodies}

ModerationCategoryNames ==
    <<"sexual", "hate", "harassment", "self-harm", "sexual/minors",
      "hate/threatening", "violence/graphic", "self-harm/intent",
      "self-harm/instructions", "harassment/threatening", "violence">>

\* a results[0] that flags flaggedCats and scores hotCats at hotScore, the
\* other categories at 0.01
ModerationResultOf(flaggedCats, hotCats, hotScore) ==
    [hasResult |-> TRUE,
     flagged   |-> flaggedCats # {},
     categories |-> [i \in 1..Len(ModerationCategoryNames) |->
                       Entry(ModerationCategoryNames[i],
                             ModerationCategoryNames[i] \in flaggedCats)],
     hasScores |-> TRUE,
     category_scores |-> [i \in 1..Len(ModerationCategoryNames) |->
                            Entry(ModerationCategoryNames[i],
                                  IF ModerationCategoryNames[i] \in hotCats
                                  THEN hotScore ELSE Frac(1, 100))]]

OpenAIBodies ==
    {ModerationResultOf({}, {"harassment"}, Frac(50, 100)),
     ModerationResultOf({"self-harm/intent"}, {"self-harm", "self-harm/intent"},
                        Frac(30, 100)),
     ModerationResultOf({"violence"}, {"violence"}, Frac(95, 100)),
     ModerationResultOf({"hate", "sexual/minors"}, {"hate"}, Frac(80, 100)),
     \* a malformed body: a critical category flagged, category_scores missing
     [ModerationResultOf({"harassment/threatening"}, {}, Num(0))
        EXCEPT !.hasScores = FALSE, !.category_scores = <<>>],
     \* a malformed body: nothing flagged, category_scores missing
     [ModerationResultOf({}, {}, Num(0))
        EXCEPT !.hasScores = FALSE, !.category_scores = <<>>],
     \* a malformed body: results is empty
     [hasResult |-> FALSE]}

OpenAIReplies ==
    {NetworkError, HttpError} \cup {HttpOk(b) : b \in OpenAIBodies}

\* packages/shared/constants: the time allowed to a classifier call
API_TIMEOUTS == [PERSPECTIVE |-> 10000, OPENAI |-> 10000, DEFAULT |-> 5000]

(***************************************************************************)
(* The rate limiter middleware (middleware/rate-limit.ts)                  *)
(*                                                                         *)
(* The store maps a key to its entry {count, resetTime}, or to NoEntry     *)
(* where store[key] is undefined.  Times are milliseconds.                 *)
(***************************************************************************)
\* the options the limiter is created with (index.ts takes them from the
\* environment): here 2 requests per window of 2000 ms
options == [windowMs |-> 2000, maxRequests |-> 2]

\* req.ip of the clients; "" stands for an undefined req.ip
Ips == {"10.0.0.1", ""}

\* const key = req.ip || 'unknown'
KeyOf(ip) == IF ip = "" THEN "unknown" ELSE ip
Keys == {KeyOf(ip) : ip \in Ips}

NoEntry == [present |-> FALSE]
StoreEntry(count, resetTime) ==
    [present |-> TRUE, count |-> count, resetTime |-> resetTime]

\* Math.ceil(a / b), b > 0
Ceil(a, b) == IF a % b = 0 THEN a \div b ELSE (a \div b) + 1

\* the middleware called at time t for a key: the store it leaves and what
\* it answers (next(), or status 429 with retryAfter)
rateLimiter(st, key, t) ==
    IF ~st[key].present \/ t > st[key].resetTime
    THEN [store    |-> [st EXCEPT ![key] = StoreEntry(1, t + options.windowMs)],
          response |-> [status |-> "next"]]
    ELSE LET counted == [st EXCEPT ![key].count = @ + 1]
         IN  IF counted[key].count > options.maxRequests
             THEN [store    |-> counted,
                   response |-> [status |-> "429",
                                 retryAfter |-> Ceil(counted[key].resetTime - t, 1000)]]
             ELSE [store |-> counted, response |-> [status |-> "next"]]

\* the callback of setInterval run at time t, deleting from resetTime on
cleanup_AtResetTime(st, t) ==
    [key \in DOMAIN st |->
        IF st[key].present /\ t >= st[key].resetTime THEN NoEntry ELSE st[key]]

\* the callback of setInterval run at time t
cleanup(st, t) ==
    [key \in DOMAIN st |->
        IF st[key].present /\ t > st[key].resetTime THEN NoEntry ELSE st[key]]

(***************************************************************************)
(* The state: one analyzeConversation call and the promises under it       *)
(***************************************************************************)
VARIABLES
    messages,         \* the argument of analyzeConversation
    perspectiveCall,  \* per message, the promise of perspective.analyzeText
    openaiCall,       \* per message, the promise of openai.moderateText
    analyses,         \* per message, the promise of analyzeMessage
    conversation,     \* the promise of analyzeConversation
    elapsed,          \* milliseconds since the fetch calls were issued
    store,            \* rate-limit.ts: per key, the entry of the store
    now,              \* Date.now()
    responses         \* what the rate limiter answered to each request so far

vars == <<messages, perspectiveCall, openaiCall, analyses, conversation, elapsed,
          store, now, responses>>

limiterVars == <<store, now, responses>>
analyzerVars ==
    <<messages, perspectiveCall, openaiCall, analyses, conversation, elapsed>>

\* the rate limiter before any request
LimiterIdle ==
    /\ store = [key \in Keys |-> NoEntry]
    /\ now = 0
    /\ responses = <<>>

Indices == 1..Len(messages)

Init ==
    /\ messages \in Conversations
    /\ perspectiveCall = [i \in 1..Len(messages) |-> Pending]
    /\ openaiCall = [i \in 1..Len(messages) |-> Pending]
    /\ analyses = [i \in 1..Len(messages) |-> Pending]
    /\ conversation = Pending
    /\ elapsed = 0
    /\ LimiterIdle

\* the fetch of classifier A for message i is answered, a failed call being
\* issued again
PerspectiveSettle_Retry(i, reply) ==
    /\ perspectiveCall[i].status \in {"pending", "rejected"}
    /\ analyses[i].status = "pending"
    /\ perspectiveCall' = [perspectiveCall EXCEPT ![i] = analyzeText(reply)]
    /\ UNCHANGED <<messages, openaiCall, analyses, conversation, elapsed>>
    /\ UNCHANGED limiterVars

\* the fetch of classifier A for message i is answered, and analyzeText settles
PerspectiveSettle(i, reply) ==
    /\ perspectiveCall[i].status = "pending"
    /\ perspectiveCall' = [perspectiveCall EXCEPT ![i] = analyzeText(reply)]
    /\ UNCHANGED <<messages, openaiCall, analyses, conversation, elapsed>>
    /\ UNCHANGED limiterVars

\* the fetch of classifier B for message i is answered, and moderateText settles
OpenAISettle(i, reply) ==
    /\ openaiCall[i].status = "pending"
    /\ openaiCall' = [openaiCall EXCEPT ![i] = moderateText(reply)]
    /\ UNCHANGED <<messages, perspectiveCall, analyses, conversation, elapsed>>
    /\ UNCHANGED limiterVars

\* analyzeMessage(messages[i]) returns, its keyword matches pushed onto an
\* array kept from the analyses that returned before it
AnalyzeMessage_SharedMatches(i) ==
    /\ analyses[i].status = "pending"
    /\ IsSettled(perspectiveCall[i])
    /\ IsSettled(openaiCall[i])
    /\ LET own     == analyzeMessage(messages[i], perspectiveCall[i], openaiCall[i])
           earlier == {j \in Indices : analyses[j].status = "fulfilled"}
           carried == IF earlier = {} THEN <<>>
                      ELSE analyses[CHOOSE j \in earlier : TRUE].value.details.keywords
       IN  analyses' = [analyses EXCEPT
                          ![i] = IF own.status = "rejected" THEN own
                                 ELSE [own EXCEPT !.value.details.keywords
                                                    = carried \o @]]
    /\ UNCHANGED <<messages, perspectiveCall, openaiCall, conversation, elapsed>>
    /\ UNCHANGED limiterVars

\* analyzeMessage(messages[i]) returns, its result collected at the first
\* free position (in completion order) instead of position i
AnalyzeMessage_CompletionOrder(i) ==
    /\ analyses[i].status = "pending"
    /\ IsSettled(perspectiveCall[i])
    /\ IsSettled(openaiCall[i])
    /\ LET first == CHOOSE k \in Indices :
                       /\ analyses[k].status = "pending"
                       /\ \A j \in 1..(k - 1) : analyses[j].status # "pending"
       IN  analyses' = [analyses EXCEPT
                          ![first] = analyzeMessage(messages[i], perspectiveCall[i],
                                                    openaiCall[i])]
    /\ UNCHANGED <<messages, perspectiveCall, openaiCall, conversation, elapsed>>
    /\ UNCHANGED limiterVars

\* the Promise.all of analyzeMessage(messages[i]) is settled: the rest of
\* analyzeMessage runs
AnalyzeMessage(i) ==
    /\ analyses[i].status = "pending"
    /\ IsSettled(perspectiveCall[i])
    /\ IsSettled(openaiCall[i])
    /\ analyses' = [analyses EXCEPT
                      ![i] = analyzeMessage(messages[i], perspectiveCall[i],
                                            openaiCall[i])]
    /\ UNCHANGED <<messages, perspectiveCall, openaiCall, conversation, elapsed>>
    /\ UNCHANGED limiterVars

\* the Promise.all of analyzeConversation is settled (every analysis
\* fulfilled, or one rejected): the rest of analyzeConversation runs
AnalyzeConversation ==
    /\ conversation.status = "pending"
    /\ \/ \A i \in Indices : analyses[i].status = "fulfilled"
       \/ \E i \in Indices : analyses[i].status = "rejected"
    /\ conversation' = analyzeConversation(messages, analyses)
    /\ UNCHANGED <<messages, perspectiveCall, openaiCall, analyses, elapsed>>
    /\ UNCHANGED limiterVars

Next ==
    \/ \E i \in Indices : \E reply \in PerspectiveReplies : PerspectiveSettle(i, reply)
    \/ \E i \in Indices : \E reply \in OpenAIReplies : OpenAISettle(i, reply)
    \/ \E i \in Indices : AnalyzeMessage(i)
    \/ AnalyzeConversation

Spec == Init /\ [][Next]_vars

\* analyzeConversation from the point where every analyzeMessage has returned:
\* conversations of up to MaxWindow messages, each message with one of a few
\* outcomes of its two classifier calls.
Scenarios ==
    {\* positive text, classifier A down, classifier B finds nothing
     [text |-> SampleTexts[1], perspective |-> NetworkError,
      openai |-> HttpOk(ModerationResultOf({}, {"harassment"}, Frac(50, 100)))],
     \* neutral text, mild scores from both classifiers
     [text |-> SampleTexts[2],
      perspective |-> HttpOk([wellFormed |-> TRUE,
                              attributeScores |-> <<Entry("TOXICITY", Frac(50, 100)),
                                                    Entry("INSULT", Frac(20, 100))>>]),
      openai |-> HttpOk(ModerationResultOf({}, {"harassment"}, Frac(50, 100)))],
     \* negative text, high scores from both classifiers
     [text |-> SampleTexts[3],
      perspective |-> HttpOk([wellFormed |-> TRUE,
                              attributeScores |-> <<Entry("TOXICITY", Frac(71, 100)),
                                                    Entry("INSULT", Frac(90, 100)),
                                                    Entry("THREAT", Frac(70, 100))>>]),
      openai |-> HttpOk(ModerationResultOf({"violence"}, {"violence"}, Frac(95, 100)))],
     \* neutral text, classifier A down, classifier B flags a critical category
     [text |-> SampleTexts[2], perspective |-> NetworkError,
      openai |-> HttpOk(ModerationResultOf({"hate", "sexual/minors"}, {"hate"},
                                           Frac(80, 100)))]}

ScenarioSeqs == UNION {[1..n -> Scenarios] : n \in 1..MaxWindow}

\* what analyzeMessage returns in each scenario
ScenarioResult ==
    [sc \in Scenarios |->
        analyzeMessage(sc.text, analyzeText(sc.perspective), moderateText(sc.openai))]

ReturnedInit ==
    \E scs \in ScenarioSeqs :
        /\ messages = [i \in 1..Len(scs) |-> scs[i].text]
        /\ perspectiveCall = [i \in 1..Len(scs) |-> analyzeText(scs[i].perspective)]
        /\ openaiCall = [i \in 1..Len(scs) |-> moderateText(scs[i].openai)]
        /\ analyses = [i \in 1..Len(scs) |-> ScenarioResult[scs[i]]]
        /\ conversation = Pending
        /\ elapsed = 0
        /\ LimiterIdle

ConversationNext == AnalyzeConversation
ConversationSpec == ReturnedInit /\ [][ConversationNext]_vars

\* The same text sent several times in one conversation.
RepeatedConversations ==
    {[i \in 1..n |-> text] : n \in 1..MaxMessages,
                             text \in {SampleTexts[4], SampleTexts[6]}}

RepeatedInit ==
    /\ messages \in RepeatedConversations
    /\ perspectiveCall = [i \in 1..Len(messages) |-> Pending]
    /\ openaiCall = [i \in 1..Len(messages) |-> Pending]
    /\ analyses = [i \in 1..Len(messages) |-> Pending]
    /\ conversation = Pending
    /\ elapsed = 0
    /\ LimiterIdle

RepeatedSpec == RepeatedInit /\ [][Next]_vars

\* Classifiers that answer with confidences outside [0,1].
OutOfRangePerspectiveReplies ==
    {HttpOk([wellFormed |-> TRUE,
             attributeScores |-> <<Entry("TOXICITY", Frac(3, 2)),
                                   Entry("INSULT", Frac(20, 100))>>]),
     HttpOk([wellFormed |-> TRUE,
             attributeScores |-> <<Entry("TOXICITY", Frac(-1, 2)),
                                   Entry("INSULT", Frac(20, 100))>>]),
     HttpOk([wellFormed |-> TRUE,
             attributeScores |-> <<Entry("TOXICITY", Frac(50, 100))>>])}

OutOfRangeOpenAIReplies ==
    {HttpOk(ModerationResultOf({}, {"harassment"}, Frac(3, 2))),
     HttpOk(ModerationResultOf({}, {ModerationCategoryNames[k] :
                                      k \in 1..Len(ModerationCategoryNames)},
                               Frac(-1, 2))),
     HttpOk(ModerationResultOf({}, {"harassment"}, Frac(50, 100)))}

OutOfRangeNext ==
    \/ \E i \in Indices : \E reply \in OutOfRangePerspectiveReplies :
          PerspectiveSettle(i, reply)
    \/ \E i \in Indices : \E reply \in OutOfRangeOpenAIReplies :
          OpenAISettle(i, reply)
    \/ \E i \in Indices : AnalyzeMessage(i)
    \/ AnalyzeConversation

OutOfRangeSpec == Init /\ [][OutOfRangeNext]_vars

\* A text analysed beside the same text with a critical term added.
LexiconInit ==
    /\ messages \in {<<LexiconBases[k], WithCriticalTerm(LexiconBases[k])>> :
                        k \in 1..Len(LexiconBases)}
    /\ perspectiveCall = [i \in 1..Len(messages) |-> Pending]
    /\ openaiCall = [i \in 1..Len(messages) |-> Pending]
    /\ analyses = [i \in 1..Len(messages) |-> Pending]
    /\ conversation = Pending
    /\ elapsed = 0
    /\ LimiterIdle

LexiconSpec == LexiconInit /\ [][Next]_vars

\* Time passes while a classifier call is outstanding.  Neither adapter arms
\* a timer or passes an abort signal to fetch, so the passage of time changes
\* nothing but the clock.
CallOutstanding ==
    \E i \in Indices :
        perspectiveCall[i].status = "pending" \/ openaiCall[i].status = "pending"

Tick ==
    /\ CallOutstanding
    /\ elapsed < MaxTicks * 5000
    /\ elapsed' = elapsed + 5000
    /\ UNCHANGED <<messages, perspectiveCall, openaiCall, analyses, conversation>>
    /\ UNCHANGED limiterVars

\* the same program, observed with its clock
TimedNext == Next \/ Tick
TimedSpec == Init /\ [][TimedNext]_vars

(***************************************************************************)
(* The rate limiter under requests, cleanup runs and the passage of time   *)
(***************************************************************************)
LimiterInit ==
    /\ messages = <<>>
    /\ perspectiveCall = <<>>
    /\ openaiCall = <<>>
    /\ analyses = <<>>
    /\ conversation = Pending
    /\ elapsed = 0
    /\ LimiterIdle

\* a request of a client passes through the middleware
Request(ip) ==
    /\ Len(responses) < MaxRequests
    /\ LET result == rateLimiter(store, KeyOf(ip), now)
       IN  /\ store' = result.store
           /\ responses' = Append(responses, [key      |-> KeyOf(ip),
                                              time     |-> now,
                                              response |-> result.response])
    /\ UNCHANGED <<now>>
    /\ UNCHANGED analyzerVars

\* the cleanup timer fires
Cleanup ==
    /\ store' = cleanup(store, now)
    /\ UNCHANGED <<now, responses>>
    /\ UNCHANGED analyzerVars

\* Date.now() advances
Advance ==
    /\ now < MaxClock * 500
    /\ now' = now + 500
    /\ UNCHANGED <<store, responses>>
    /\ UNCHANGED analyzerVars

LimiterNext ==
    \/ \E ip \in Ips : Request(ip)
    \/ Cleanup
    \/ Advance

LimiterSpec == LimiterInit /\ [][LimiterNext]_vars

(***************************************************************************)
(* Properties                                                              *)
(***************************************************************************)
\* analyzeMessage(messages[i]) has returned a result
Returned(i) == analyses[i].status = "fulfilled"
Result(i)   == analyses[i].value

\* classifier B (its call fulfilled) flagged category cat for message i
BFlagged(i, cat) ==
    /\ openaiCall[i].status = "fulfilled"
    /\ ArrayIncludes(openaiCall[i].value.categories, cat)

BFlaggedCritical(i) ==
    \E cat \in {"self-harm/intent", "self-harm/instructions", "violence/graphic",
                "harassment/threatening", "sexual/minors"} : BFlagged(i, cat)

InRange(x, lo, hi) == Geq(x, Num(lo)) /\ Leq(x, Num(hi))

Clamp(x, lo, hi) ==
    IF Lt(x, Num(lo)) THEN Num(lo) ELSE IF Gt(x, Num(hi)) THEN Num(hi) ELSE x

\* C1: every riskScore returned by analyzeMessage lies in [0,100], and so
\* does the overallRiskScore of every conversation analyzeConversation returns.
C1_RiskScoreInRange ==
    /\ \A i \in Indices : Returned(i) => InRange(Result(i).riskScore, 0, 100)
    /\ conversation.status = "fulfilled"
         => InRange(conversation.value.overallRiskScore, 0, 100)

\* a conversation is returned in which the clamp cut one message's composite
\* from below 0 and another's from above 100
C1_Witness ==
    /\ conversation.status = "fulfilled"
    /\ \E i \in Indices : Lt(composite(Result(i).details), Num(0))
    /\ \E j \in Indices : Gt(composite(Result(j).details), Num(100))

\* C2: when classifier B flags one of the five critical categories, the
\* riskLevel returned is critical, whatever the riskScore.
C2_CriticalOverride ==
    \A i \in Indices :
        Returned(i) /\ BFlaggedCritical(i) => Result(i).riskLevel = "critical"

\* a critical category is flagged on a message whose riskScore is below 40
C2_Witness ==
    \E i \in Indices :
        /\ Returned(i)
        /\ BFlaggedCritical(i)
        /\ Lt(Result(i).riskScore, Num(40))
        /\ Result(i).riskLevel = "critical"

StepLevel(score) ==
    IF Lt(score, Num(40)) THEN "low"
    ELSE IF Lt(score, Num(60)) THEN "medium"
    ELSE IF Lt(score, Num(80)) THEN "high"
    ELSE "critical"

LevelRank(level) ==
    CASE level = "low" -> 0 [] level = "medium" -> 1
      [] level = "high" -> 2 [] level = "critical" -> 3

C4_RequiresAlert ==
    \A i \in Indices :
        Returned(i) =>
            (Result(i).requiresAlert
               <=> \/ Result(i).riskLevel \in {"high", "critical"}
                   \/ Result(i).flags.selfHarm)

\* one message of riskLevel high raises the alert, and one message that is
\* neither high, critical nor selfHarm does not
C4_Witness ==
    \E i, j \in Indices :
        /\ Returned(i) /\ Result(i).riskLevel = "high" /\ Result(i).requiresAlert
        /\ Returned(j) /\ ~Result(j).requiresAlert

\* C5: when classifier B flags self-harm/intent or self-harm/instructions,
\* the result has selfHarm = true, riskLevel = critical and requiresAlert =
\* true, whatever the scores and the other signals.
C5_SelfHarmAlert ==
    \A i \in Indices :
        /\ Returned(i)
        /\ BFlagged(i, "self-harm/intent") \/ BFlagged(i, "self-harm/instructions")
        => /\ Result(i).flags.selfHarm
           /\ Result(i).riskLevel = "critical"
           /\ Result(i).requiresAlert

\* self-harm/intent flagged at confidence 0.3 on the message "ok", classifier
\* A failed: the composite is 0.4 * 30 + 0.1 * 50 = 17
C5_Witness ==
    \E i \in Indices :
        /\ Returned(i)
        /\ messages[i] = "ok"
        /\ perspectiveCall[i].status = "rejected"
        /\ BFlagged(i, "self-harm/intent")
        /\ NumEq(MathMax(Values(openaiCall[i].value.scores)), Frac(30, 100))
        /\ NumEq(Result(i).riskScore, Num(17))
        /\ Result(i).flags.selfHarm /\ Result(i).requiresAlert

\* C6: a classifier failure (network error, non-success status, malformed
\* body) is never surfaced: no analyzeMessage and no analyzeConversation is
\* rejected, and a conversation returned counts all its messages.
C6_FailureNeverSurfaced ==
    /\ \A i \in Indices : analyses[i].status # "rejected"
    /\ conversation.status # "rejected"
    /\ conversation.status = "fulfilled"
         => conversation.value.messageCount = Len(messages)

\* the keyword component as specified: 100 with a critical match, otherwise
\* 20 per concern match, capped at 100
KeywordComponent(keywords) ==
    IF \E k \in 1..Len(keywords) : Includes(keywords[k], "[CRITICAL]") THEN Num(100)
    ELSE MathMin2(Num(100), Num(20 * Len(keywords)))

ToxicityComponent(i)  == Mul(Result(i).details.perspective.highestScore, Num(100))
SentimentComponent(i) == Mul(Sub(Num(1), Result(i).details.sentiment), Num(50))

\* 100 * the highest category score of classifier B, 0 when classifier B failed
ModerationComponent(i) ==
    IF openaiCall[i].status = "rejected" THEN Num(0)
    ELSE Mul(MathMax(Values(openaiCall[i].value.scores)), Num(100))

Weighted(tox, mod, kw, sent) ==
    Add(Add(Add(Mul(Frac(3, 10), tox), Mul(Frac(4, 10), mod)),
            Mul(Frac(2, 10), kw)),
        Mul(Frac(1, 10), sent))

\* C7: when classifier B fails, riskScore is the clamp to [0,100] of
\* 0.3 * toxicity + 0.2 * keyword + 0.1 * sentiment components.
C7_ModerationZeroOnFailure ==
    \A i \in Indices :
        Returned(i) /\ openaiCall[i].status = "rejected"
        => NumEq(Result(i).riskScore,
                 Clamp(Weighted(ToxicityComponent(i), Num(0),
                                KeywordComponent(Result(i).details.keywords),
                                SentimentComponent(i)), 0, 100))

\* C8: every classifier call is bounded by its timeout and then treated as
\* failed: no call to classifier A or B is still pending once more than its
\* API_TIMEOUTS have elapsed, so no analysis waits for it any longer.
C8_CallsBoundedByTimeout ==
    \A i \in Indices :
        /\ perspectiveCall[i].status = "pending"
              => elapsed <= API_TIMEOUTS.PERSPECTIVE
        /\ openaiCall[i].status = "pending"
              => elapsed <= API_TIMEOUTS.OPENAI

\* C9: the keyword component of the composite is 100 with a critical match,
\* otherwise min(100, 20 * number of concern matches); it lies in [0,100].
C9_KeywordComponent ==
    \A i \in Indices :
        Returned(i) =>
            /\ NumEq(keywordScore(Result(i).details.keywords),
                     KeywordComponent(Result(i).details.keywords))
            /\ InRange(keywordScore(Result(i).details.keywords), 0, 100)

\* C10: riskScore is the clamp to [0,100] of 0.3 * toxicity + 0.4 *
\* moderation + 0.2 * keyword + 0.1 * sentiment components.
C10_CompositeFormula ==
    \A i \in Indices :
        Returned(i) =>
            NumEq(Result(i).riskScore,
                  Clamp(Weighted(ToxicityComponent(i), ModerationComponent(i),
                                 KeywordComponent(Result(i).details.keywords),
                                 SentimentComponent(i)), 0, 100))

\* the highest raw score classifier A returned for message i is above 0.7
AHighestAbove(i) ==
    /\ perspectiveCall[i].status = "fulfilled"
    /\ \E k \in 1..Len(perspectiveCall[i].value.scores) :
           Gt(perspectiveCall[i].value.scores[k].value, Frac(7, 10))

\* the lexicon matcher found a match of either tag in message i
LexiconMatched(i) == Len(keywordsOfText[TextIndex(messages[i])]) > 0

\* C11: the six flags of a result are functions of the signals of its own
\* call: selfHarm, violence, hate and sexual iff classifier B flagged one of
\* the two categories of that name, toxicity iff classifier A's highest raw
\* score is above 0.7, mentalHealthConcern iff the lexicon matched.
C11_Flags ==
    \A i \in Indices :
        Returned(i) =>
            /\ Result(i).flags.selfHarm
                  <=> BFlagged(i, "self-harm/intent") \/ BFlagged(i, "self-harm/instructions")
            /\ Result(i).flags.violence
                  <=> BFlagged(i, "violence") \/ BFlagged(i, "violence/graphic")
            /\ Result(i).flags.hate
                  <=> BFlagged(i, "hate") \/ BFlagged(i, "hate/threatening")
            /\ Result(i).flags.sexual
                  <=> BFlagged(i, "sexual") \/ BFlagged(i, "sexual/minors")
            /\ Result(i).flags.toxicity <=> AHighestAbove(i)
            /\ Result(i).flags.mentalHealthConcern <=> LexiconMatched(i)

\* two messages of one conversation with different flags: toxicity, hate and
\* sexual only on one, selfHarm and mentalHealthConcern only on the other
C11_Witness ==
    \E i, j \in Indices :
        /\ Returned(i) /\ Returned(j)
        /\ Result(i).flags = [toxicity |-> TRUE, selfHarm |-> FALSE,
                              violence |-> FALSE, hate |-> TRUE, sexual |-> TRUE,
                              mentalHealthConcern |-> FALSE]
        /\ Result(j).flags = [toxicity |-> FALSE, selfHarm |-> TRUE,
                              violence |-> FALSE, hate |-> FALSE, sexual |-> FALSE,
                              mentalHealthConcern |-> TRUE]

\* the four blocks of suggested actions
CrisisActions ==
    <<"IMMEDIATE: Contact crisis intervention services",
      "Notify parent/guardian immediately",
      "Provide crisis hotline resources">>
DangerActions ==
    <<"Assess immediate danger to self or others",
      "Notify appropriate authorities if threat detected">>
MentalHealthActions ==
    <<"Consider reaching out to mental health resources",
      "Monitor conversation closely">>
AlertActions ==
    <<"Send alert to trusted contacts", "Increase monitoring frequency">>

Block(condition, actions) == IF condition THEN actions ELSE <<>>
Count(condition) == IF condition THEN 1 ELSE 0

ALabels(i) ==
    IF perspectiveCall[i].status # "fulfilled" THEN {}
    ELSE {perspectiveCall[i].value.scores[k].name :
            k \in {n \in 1..Len(perspectiveCall[i].value.scores) :
                      Gt(perspectiveCall[i].value.scores[n].value, Frac(7, 10))}}

\* the categories classifier B flagged for message i
BLabels(i) ==
    {ModerationCategoryNames[k] :
       k \in {n \in 1..Len(ModerationCategoryNames) :
                 BFlagged(i, ModerationCategoryNames[n])}}

Analysed == conversation.status = "fulfilled"
RiskScores == [i \in Indices |-> Result(i).riskScore]
Sentiments == [i \in Indices |-> Result(i).details.sentiment]

Mean(xs) == DivInt(Sum(xs), Len(xs))

\* C14: overallRiskScore is the arithmetic mean of the per-message
\* riskScores, and overallRiskLevel is the threshold function of that mean
\* alone: a critical category flagged on a message does not override it.
C14_OverallRisk ==
    Analysed =>
        /\ NumEq(conversation.value.overallRiskScore, Mean(RiskScores))
        /\ conversation.value.overallRiskLevel = StepLevel(Mean(RiskScores))

\* a conversation holding a message that is critical by override, and whose
\* overallRiskLevel is low
C14_Witness ==
    /\ Analysed
    /\ Len(messages) > 1
    /\ \E i \in Indices :
          /\ Result(i).riskLevel = "critical"
          /\ Lt(Result(i).riskScore, Num(80))
    /\ \E i, j \in Indices : ~NumEq(Result(i).riskScore, Result(j).riskScore)
    /\ conversation.value.overallRiskLevel = "low"

\* the last 3 values of xs (at least 3 long), and the up to 3 before them
Recent(xs) == SubSeq(xs, Len(xs) - 2, Len(xs))
Older(xs)  == SubSeq(xs, IF Len(xs) > 6 THEN Len(xs) - 5 ELSE 1, Len(xs) - 3)

\* C15: isEscalating is true exactly when the conversation has at least 6
\* messages and the mean of the last 3 riskScores is above 1.3 times the mean
\* of the 3 before them; with 3, 4 or 5 messages it is false.
C15_EscalationFullWindow ==
    Analysed =>
        (conversation.value.isEscalating
           <=> /\ Len(messages) >= 6
               /\ Gt(Mean(Recent(RiskScores)),
                     Mul(Frac(13, 10), Mean(Older(RiskScores)))))

\* C15 (amended): isEscalating is true exactly when the conversation has at
\* least 4 messages and the mean of the last 3 riskScores is above 1.3 times
\* the mean of the up to 3 riskScores before them; with 3 messages or fewer
\* it is false.
C15_Escalation ==
    Analysed =>
        (conversation.value.isEscalating
           <=> /\ Len(messages) >= 4
               /\ Gt(Mean(Recent(RiskScores)),
                     Mul(Frac(13, 10), Mean(Older(RiskScores)))))

\* a conversation of 5 messages found escalating against an older window of
\* 2 messages
C15_Witness ==
    /\ Analysed
    /\ Len(messages) = 5
    /\ conversation.value.isEscalating

\* C16: a conversation of fewer than 3 messages is returned with
\* isEscalating = false and sentimentTrend = stable, whatever its scores and
\* sentiments.
C16_ShortConversation ==
    Analysed /\ Len(messages) < 3 =>
        /\ ~conversation.value.isEscalating
        /\ conversation.value.sentimentTrend = "stable"

\* a conversation of 2 messages, the second with the higher riskScore and
\* the lower sentiment
C16_Witness ==
    /\ Analysed
    /\ Len(messages) = 2
    /\ Gt(Result(2).riskScore, Mul(Frac(13, 10), Result(1).riskScore))
    /\ Lt(Result(2).details.sentiment, Num(0))
    /\ Gt(Result(1).details.sentiment, Num(0))
    /\ ~conversation.value.isEscalating
    /\ conversation.value.sentimentTrend = "stable"

\* the trend of a recent mean against an older mean
TrendOf(recentMean, olderMean) ==
    IF Gt(recentMean, Mul(Frac(12, 10), olderMean)) THEN "improving"
    ELSE IF Lt(recentMean, Mul(Frac(8, 10), olderMean)) THEN "declining"
    ELSE "stable"

\* C17: with at least 3 messages, sentimentTrend compares the mean of the
\* last 3 sentiments with the mean of the up to 3 sentiments before them:
\* improving above 1.2 times, declining below 0.8 times, otherwise stable
\* (stated where the older window holds at least one sentiment).
C17_SentimentTrend ==
    Analysed /\ Len(messages) >= 4 =>
        conversation.value.sentimentTrend
          = TrendOf(Mean(Recent(Sentiments)), Mean(Older(Sentiments)))

\* the positions of the messages of riskLevel high or critical, and the
\* k-th of them in message order
HighRiskIndices == {i \in Indices : Result(i).riskLevel \in {"high", "critical"}}
KthHighRisk(k) ==
    CHOOSE i \in HighRiskIndices : Cardinality({j \in HighRiskIndices : j <= i}) = k

\* C18: criticalMessages is the subsequence of the per-message results of
\* riskLevel high or critical, in message order: one entry per such
\* message, identical messages included, the k-th entry being the result of
\* the k-th such message.
C18_CriticalMessages ==
    Analysed =>
        LET criticalMessages == conversation.value.criticalMessages
        IN  /\ Len(criticalMessages) = Cardinality(HighRiskIndices)
            /\ \A k \in 1..Len(criticalMessages) :
                  criticalMessages[k] = Result(KthHighRisk(k))

\* a conversation whose high-risk messages are separated by others, two of
\* them identical, one high and one critical
C18_Witness ==
    /\ Analysed
    /\ Len(messages) = 5
    /\ HighRiskIndices = {1, 3, 5}
    /\ Result(1) = Result(5)
    /\ Result(1).riskLevel = "high"
    /\ Result(3).riskLevel = "critical"
    /\ conversation.value.criticalMessages = <<Result(1), Result(3), Result(5)>>

\* the four advisories
CountAdvisory(count) ==
    ToString(count) \o " critical message(s) detected - immediate review required"
EscalationAdvisory   == "Conversation risk is escalating - increase monitoring"
SupportAdvisory      == "Sentiment is declining - user may need support"
InterventionAdvisory == "High overall risk - consider intervention"

C20_ResultOrder ==
    /\ \A i \in Indices :
          Returned(i) =>
              /\ Result(i).text = messages[i]
              /\ analyses[i] = analyzeMessage(messages[i], perspectiveCall[i],
                                              openaiCall[i])
    /\ Analysed =>
          /\ NumEq(conversation.value.overallRiskScore, Mean(RiskScores))
          /\ conversation.value.isEscalating = detectEscalation(RiskScores)
          /\ conversation.value.sentimentTrend = analyzeSentimentTrend(Sentiments)
          /\ Len(conversation.value.criticalMessages) = Cardinality(HighRiskIndices)
          /\ \A k \in 1..Cardinality(HighRiskIndices) :
                conversation.value.criticalMessages[k].text = messages[KthHighRisk(k)]

\* the analysis of the second message has returned while both classifier
\* calls of the first message are still outstanding
C20_Witness ==
    /\ Len(messages) = 2
    /\ messages[1] # messages[2]
    /\ Returned(2)
    /\ Result(2).text = messages[2]
    /\ perspectiveCall[1].status = "pending"
    /\ openaiCall[1].status = "pending"
    /\ analyses[1].status = "pending"

Clamp01(x) ==
    IF Lt(x, Num(0)) THEN Num(0) ELSE IF Gt(x, Num(1)) THEN Num(1) ELSE x

\* C22: a classifier confidence outside [0,1] is clamped where it is used:
\* riskScore is computed with classifier A's highest score and classifier
\* B's highest score cut to [0,1], so that neither component contributes
\* more than its weight times 100 (classifier B answering; the keyword and
\* sentiment components as the code computes them).
C22_ClampedAtUse ==
    \A i \in Indices :
        Returned(i) /\ openaiCall[i].status = "fulfilled" =>
            LET tox == Mul(Clamp01(Result(i).details.perspective.highestScore), Num(100))
                mod == Mul(Clamp01(MathMax(Values(Result(i).details.openai.scores))),
                           Num(100))
            IN  NumEq(Result(i).riskScore,
                      Clamp(Weighted(tox, mod,
                                     keywordScore(Result(i).details.keywords),
                                     SentimentComponent(i)), 0, 100))

\* the number of terms of a set contained in the case-folded text
TermsContained(terms, text) ==
    Cardinality({w \in terms : Includes(ToLowerCase(text), w)})

\* per sample text, the clamp to [-1,1] of 0.1 per positive term contained
\* minus 0.1 per negative term contained
SentimentEstimate ==
    [k \in 1..Len(SampleTexts) |->
        Clamp(Frac(TermsContained({"happy", "good", "great", "better", "hope",
                                   "love", "joy"}, SampleTexts[k])
                   - TermsContained({"sad", "bad", "worse", "hate", "hurt",
                                     "pain", "terrible"}, SampleTexts[k]), 10),
              -1, 1)]

\* C23: the sentiment of a result is the clamp to [-1,1] of 0.1 times the
\* number of positive terms contained in the case-folded text minus 0.1
\* times the number of negative terms contained in it; it lies in [-1,1].
C23_Sentiment ==
    \A i \in Indices :
        Returned(i) =>
            /\ NumEq(Result(i).details.sentiment,
                     SentimentEstimate[TextIndex(messages[i])])
            /\ InRange(Result(i).details.sentiment, -1, 1)

\* a conversation with a text holding three negative terms (-0.3) and a
\* text holding none (0)
C23_Witness ==
    \E i, j \in Indices :
        /\ Returned(i) /\ Returned(j)
        /\ messages[i] = "i feel sad and hurt, everything is bad"
        /\ NumEq(Result(i).details.sentiment, Frac(-3, 10))
        /\ NumEq(Result(j).details.sentiment, Num(0))

\* the requests of the key of request k admitted before it, at time `since`
\* or later
AdmittedSince(k, since) ==
    {j \in 1..(k - 1) :
        /\ responses[j].key = responses[k].key
        /\ responses[j].response.status = "next"
        /\ responses[j].time >= since}

\* C24: a request is rejected with status 429 exactly when maxRequests
\* requests of its key were already admitted within the preceding windowMs,
\* so that no interval of windowMs holds more than maxRequests admitted
\* requests of one key (a request admitted exactly windowMs before counts
\* for neither direction).
C24_SlidingWindow ==
    \A k \in 1..Len(responses) :
        LET t == responses[k].time
        IN  /\ responses[k].response.status = "429"
                  => Cardinality(AdmittedSince(k, t - options.windowMs))
                       >= options.maxRequests
            /\ Cardinality(AdmittedSince(k, t - options.windowMs + 1))
                  >= options.maxRequests
                  => responses[k].response.status = "429"

\* what a request of a key at time t would get from a store: the answer and
\* the entry of the key afterwards
Decision(st, key, t) ==
    [response |-> rateLimiter(st, key, t).response,
     entry    |-> rateLimiter(st, key, t).store[key]]

\* C30: the cleanup is invisible to clients: a cleanup run changes the
\* decision (admitted or rejected, retryAfter, and the entry kept) of no
\* request of any key at any later time, and a request changes the entry of
\* no other key.
C30_CleanupInvisible ==
    [][/\ responses' = responses =>
            \A key \in Keys : \A k \in 0..MaxClock :
                Decision(store', key, now' + 500 * k)
                  = Decision(store, key, now' + 500 * k)
       /\ responses' # responses =>
            \A key \in Keys \ {responses'[Len(responses')].key} :
                store'[key] = store[key]]_vars

\* the cleanup has deleted the entry of a key that was limited before (a
\* request of it was rejected), while the entry of the other key is kept
C30_Witness ==
    \E key \in Keys :
        /\ ~store[key].present
        /\ \E k \in 1..Len(responses) :
              /\ responses[k].key = key
              /\ responses[k].response.status = "429"
              /\ responses[k].response.retryAfter = 1
        /\ \E other \in Keys \ {key} : store[other].present

\* C25: no retry: a conversation of n messages has exactly n calls of each
\* classifier, a call that has settled (failed or not) is never issued
\* again, and the result of a message whose call failed carries the default
\* value in its place.
C25_NoRetry ==
    /\ [](/\ Len(perspectiveCall) = Len(messages)
          /\ Len(openaiCall) = Len(messages)
          /\ \A i \in Indices :
                /\ Returned(i) /\ perspectiveCall[i].status = "rejected"
                      => Result(i).details.perspective = perspectiveDefault
                /\ Returned(i) /\ openaiCall[i].status = "rejected"
                      => Result(i).details.openai = openaiDefault)
    /\ [][\A i \in Indices :
             /\ IsSettled(perspectiveCall[i]) => perspectiveCall'[i] = perspectiveCall[i]
             /\ IsSettled(openaiCall[i]) => openaiCall'[i] = openaiCall[i]]_vars

\* both classifier calls of a message failed and its analysis returned with
\* the two default values
C25_Witness ==
    \E i \in Indices :
        /\ perspectiveCall[i].status = "rejected"
        /\ openaiCall[i].status = "rejected"
        /\ Returned(i)
        /\ Result(i).details.perspective = perspectiveDefault
        /\ Result(i).details.openai = openaiDefault

\* C26: with the same classifier outputs and the same sentiment, a message
\* whose lexicon matches are those of another message plus a critical match
\* has a riskScore at least as high, for 0 to 18 concern matches.
C26_CriticalNeverLowers ==
    \A i, j \in Indices :
        /\ Returned(i) /\ Returned(j)
        /\ perspectiveCall[i] = perspectiveCall[j]
        /\ openaiCall[i] = openaiCall[j]
        /\ NumEq(Result(i).details.sentiment, Result(j).details.sentiment)
        /\ ~hasCriticalKeyword(Result(i).details.keywords)
        /\ Result(j).details.keywords
             = Result(i).details.keywords \o <<"[CRITICAL] suicide">>
        => Geq(Result(j).riskScore, Result(i).riskScore)

\* C27: the sentiment trend agrees with the direction of the change:
\* improving only if the recent mean is above the older mean, declining
\* only if it is below, stable when the two are equal, also when the older
\* mean is negative or zero (stated where the older window is full).
C27_TrendDirection ==
    Analysed /\ Len(messages) >= 6 =>
        LET recentMean == Mean(Recent(Sentiments))
            olderMean  == Mean(Older(Sentiments))
            trend      == conversation.value.sentimentTrend
        IN  /\ trend = "improving" => Gt(recentMean, olderMean)
            /\ trend = "declining" => Lt(recentMean, olderMean)
            /\ NumEq(recentMean, olderMean) => trend = "stable"

\* C28: an overall risk level of high or critical comes with a non-empty
\* criticalMessages, so the intervention advisory is never in the
\* recommendations without the advisory bearing the count as first entry.
C28_InterventionAfterCount ==
    Analysed =>
        LET c == conversation.value
        IN  /\ c.overallRiskLevel \in {"high", "critical"}
                 => Len(c.criticalMessages) > 0
            /\ \A k \in 1..Len(c.recommendations) :
                   c.recommendations[k] = InterventionAdvisory
                     => /\ k > 1
                        /\ c.recommendations[1]
                             = CountAdvisory(Len(c.criticalMessages))

\* an overall level of high reached through the mean while one message is
\* below high: both advisories appear, the count being less than the length
C28_Witness ==
    /\ Analysed
    /\ conversation.value.overallRiskLevel = "high"
    /\ HighRiskIndices # Indices
    /\ Len(conversation.value.criticalMessages) > 0
    /\ conversation.value.recommendations[1]
         = CountAdvisory(Len(conversation.value.criticalMessages))
    /\ \E k \in 2..Len(conversation.value.recommendations) :
           conversation.value.recommendations[k] = InterventionAdvisory

\* C29: a result with requiresAlert = true has suggested actions, and the
\* last two of them are 'Send alert to trusted contacts' and 'Increase
\* monitoring frequency'.
C29_AlertActionsLast ==
    \A i \in Indices :
        Returned(i) /\ Result(i).requiresAlert =>
            LET actions == Result(i).suggestedActions
            IN  /\ Len(actions) >= 2
                /\ SubSeq(actions, Len(actions) - 1, Len(actions)) = AlertActions

\* requiresAlert through the selfHarm flag alone, the risk score being below
\* the step of high: the crisis block is followed by the alert block
C29_Witness ==
    \E i \in Indices :
        /\ Returned(i)
        /\ Result(i).requiresAlert
        /\ Result(i).flags.selfHarm
        /\ Lt(Result(i).riskScore, Num(60))
        /\ Result(i).suggestedActions = CrisisActions \o AlertActions

=============================================================================
